---- MODULE Spec2Model ----
(***************************************************************************)
(* Guess-My-Word (src/guess_my_word.py): the scorer score_guess, the win   *)
(* check is_correct, the miss-letter tracker and the session loop play(),  *)
(* as run by the script's __main__ block.                                  *)
(*                                                                         *)
(* A character is its code point (a natural number), a str is a sequence   *)
(* of characters, a list is a sequence.                                    *)
(***************************************************************************)
EXTENDS Integers, Sequences, FiniteSets

VARIABLES
    pc,               \* where the script is: "main", "ask", "body", "play2", "exit"
    calls,            \* number of times play() has been entered in this run
    attempt,          \* play(): attempt
    word_of_the_day,  \* play(): word_of_the_day
    valid_words,      \* play(): valid_words
    input,            \* ask_for_guess(): the raw line last read from stdin
    guess,            \* play(): guess
    score,            \* play(): score
    correct,          \* value of is_correct(score)
    file,             \* miss_letters.txt: [exists, content]
    tracker,          \* the list last reported by track_miss_letters in this session
    msg,              \* the last message printed
    scored,           \* history: the guesses scored so far in this session, in order
    reported          \* history: the outcomes ("won", "lost") printed in this session

vars == <<pc, calls, attempt, word_of_the_day, valid_words, input, guess, score,
          correct, file, tracker, msg, scored, reported>>

----------------------------------------------------------------------------
(* Program constants *)

MISS == 0
MISPLACED == 1
EXACT == 2

MAX_ATTEMPTS == 6
WORD_LENGTH == 5

----------------------------------------------------------------------------
(* Bounds of the model *)

\* letters of the alphabet the scorer is checked over: 'a' .. chr(96 + NumLetters)
NumLetters == 3

\* number of 5-letter words in the word lists of a session
NumWords == 2

----------------------------------------------------------------------------
(* str, list and character primitives of Python used by the program *)

Range(s) == { s[i] : i \in 1..Len(s) }

\* x in s, for a list or for a one-character x and a str
In(x, s) == \E i \in 1..Len(s) : s[i] = x

\* list.remove(x): drops the first occurrence of x
Remove(s, x) ==
    LET i == CHOOSE k \in 1..Len(s) : s[k] = x /\ \A j \in 1..(k - 1) : s[j] # x
    IN  [k \in 1..(Len(s) - 1) |-> IF k < i THEN s[k] ELSE s[k + 1]]

LowerChar(c) == IF c \in 65..90 THEN c + 32 ELSE c

UpperChar(c) == IF c \in 97..122 THEN c - 32 ELSE c

\* str.lower()
lower(s) == [i \in 1..Len(s) |-> LowerChar(s[i])]

\* str.upper()
upper(s) == [i \in 1..Len(s) |-> UpperChar(s[i])]

\* the whitespace str.strip() removes: tab, newline, vertical tab, form feed, CR, space
IsSpace(c) == c \in {9, 10, 11, 12, 13, 32}

\* str.strip(): drops leading and trailing whitespace
strip(s) ==
    LET keep == { i \in 1..Len(s) : ~IsSpace(s[i]) }
    IN  IF keep = {} THEN <<>>
        ELSE LET lo == CHOOSE i \in keep : \A j \in keep : i <= j
                 hi == CHOOSE i \in keep : \A j \in keep : j <= i
             IN  SubSeq(s, lo, hi)

\* list.sort() on a list of characters
RECURSIVE sort(_)
sort(s) ==
    IF s = <<>> THEN <<>>
    ELSE LET m == CHOOSE x \in Range(s) : \A y \in Range(s) : x <= y
         IN  <<m>> \o sort(Remove(s, m))

\* ord() of a lowercase letter
Alphabet == <<"a", "b", "c", "d", "e", "f", "g", "h", "i", "j", "k", "l", "m",
              "n", "o", "p", "q", "r", "s", "t", "u", "v", "w", "x", "y", "z">>

Ord(ch) == 96 + (CHOOSE i \in 1..Len(Alphabet) : Alphabet[i] = ch)

\* the str whose letters are given
Str(letters) == [i \in 1..Len(letters) |-> Ord(letters[i])]

----------------------------------------------------------------------------
(* score_guess *)

\* key for letter checked in guess: '-'
checked == 45

\* the first loop without target_word_letters.remove(letter): an exact match
\* leaves its letter in the list for the second loop to claim again
RECURSIVE ExactLoopKeepsLetter(_, _, _, _)
ExactLoopKeepsLetter(pos, guess_, target_word, st) ==
    IF pos > Len(guess_) THEN st
    ELSE LET letter == guess_[pos]
         IN  IF letter = target_word[pos]
             THEN ExactLoopKeepsLetter(pos + 1, guess_, target_word,
                    [st EXCEPT !.temporary_score[pos] = "X",
                               !.guess_letters[pos] = checked])
             ELSE ExactLoopKeepsLetter(pos + 1, guess_, target_word, st)

\* first loop of score_guess, from position pos on; st is the loop's state
\* (temporary_score, guess_letters, target_word_letters)
RECURSIVE ExactLoop(_, _, _, _)
ExactLoop(pos, guess_, target_word, st) ==
    IF pos > Len(guess_) THEN st
    ELSE LET letter == guess_[pos]
         IN  IF letter = target_word[pos]
             THEN ExactLoop(pos + 1, guess_, target_word,
                    [temporary_score     |-> [st.temporary_score EXCEPT ![pos] = "X"],
                     guess_letters       |-> [st.guess_letters EXCEPT ![pos] = checked],
                     target_word_letters |-> Remove(st.target_word_letters, letter)])
             ELSE ExactLoop(pos + 1, guess_, target_word, st)

\* the branch of the second loop taken for an unchecked letter
IsMisplaced(letter, target_word_letters) == In(letter, target_word_letters)

\* second loop of score_guess, from position pos on
RECURSIVE MisplacedLoop(_, _)
MisplacedLoop(pos, st) ==
    IF pos > Len(st.guess_letters) THEN st
    ELSE LET letter == st.guess_letters[pos]
         IN  IF letter # checked
             THEN IF IsMisplaced(letter, st.target_word_letters)
                  THEN MisplacedLoop(pos + 1,
                         [temporary_score     |-> [st.temporary_score EXCEPT ![pos] = "0"],
                          guess_letters       |-> [st.guess_letters EXCEPT ![pos] = checked],
                          target_word_letters |-> Remove(st.target_word_letters, letter)])
                  ELSE MisplacedLoop(pos + 1,
                         [st EXCEPT !.temporary_score[pos] = "_"])
             ELSE MisplacedLoop(pos + 1, st)

\* third loop of score_guess: formats the score into the required convention
RECURSIVE FormatLoop(_)
FormatLoop(temporary_score) ==
    IF temporary_score = <<>> THEN <<>>
    ELSE LET character == Head(temporary_score)
             rest == FormatLoop(Tail(temporary_score))
         IN  IF character = "X" THEN <<EXACT>> \o rest
             ELSE IF character = "0" THEN <<MISPLACED>> \o rest
             ELSE IF character = "_" THEN <<MISS>> \o rest
             ELSE rest

\* a one-pass scorer: a letter that is not exact is misplaced when it occurs
\* anywhere in the target
score_guess_one_pass(guess_, target_word) ==
    [i \in 1..Len(guess_) |->
        IF guess_[i] = target_word[i] THEN EXACT
        ELSE IF In(guess_[i], target_word) THEN MISPLACED ELSE MISS]

score_guess(guess_, target_word) ==
    LET st0 == [temporary_score     |-> [i \in 1..5 |-> " "],
                guess_letters       |-> guess_,
                target_word_letters |-> target_word]
        st1 == ExactLoop(1, guess_, target_word, st0)
        st2 == MisplacedLoop(1, st1)
    IN  FormatLoop(st2.temporary_score)

----------------------------------------------------------------------------
(* is_correct *)

\* a win check that is satisfied by one exact position
is_correct_any(score_) == In(2, score_)

is_correct(score_) == score_ = <<2, 2, 2, 2, 2>>

----------------------------------------------------------------------------
(* The miss-letter log: delete_miss_letters and track_miss_letters *)

\* a delete_miss_letters that leaves the log in place
delete_nothing(f) == f

\* os.path.exists / os.remove on the log
delete_miss_letters(f) ==
    IF f.exists THEN [exists |-> FALSE, content |-> <<>>] ELSE f

\* the test of the write loop: letter not in target_word
NotInTarget(letter, target_word) == ~In(letter, target_word)

\* the write loop: the letters of guess written to the log, in order
RECURSIVE WriteLoop(_, _)
WriteLoop(guess_, target_word) ==
    IF guess_ = <<>> THEN <<>>
    ELSE (IF NotInTarget(Head(guess_), target_word) THEN <<Head(guess_)>> ELSE <<>>)
         \o WriteLoop(Tail(guess_), target_word)

\* the loop that keeps the first occurrence of every letter read back
RECURSIVE DistinctLoop(_, _)
DistinctLoop(miss_letters, tracked_miss_letters) ==
    IF miss_letters = <<>> THEN tracked_miss_letters
    ELSE DistinctLoop(Tail(miss_letters),
                      IF ~In(Head(miss_letters), tracked_miss_letters)
                      THEN Append(tracked_miss_letters, Head(miss_letters))
                      ELSE tracked_miss_letters)

\* track_miss_letters: open(.., 'a') creates the log when it is absent; rebinding
\* `file` to the read handle drops the last reference to the append handle, which
\* flushes and closes it before file.read() runs, so the read sees the letters
\* just written.  Result: the log afterwards and the list that is reported.
track_miss_letters(guess_, target_word, f) ==
    LET appended     == (IF f.exists THEN f.content ELSE <<>>)
                        \o WriteLoop(guess_, target_word)
        miss_letters == upper(appended)
    IN  [file                 |-> [exists |-> TRUE, content |-> appended],
         tracked_miss_letters |-> sort(DistinctLoop(miss_letters, <<>>))]

----------------------------------------------------------------------------
(* The word lists and the player's input *)

\* 5-letter words the word lists are drawn from
WordPool == << Str(<<"h","e","l","l","o">>), Str(<<"w","e","i","r","d">>),
               Str(<<"m","e","l","e","e">>), Str(<<"e","r","e","c","t">>) >>

FiveWords == SubSeq(WordPool, 1, NumWords)

\* entries of other lengths a word list may hold
OddWords == << Str(<<"h","e","l">>), Str(<<"h","e","l","l","o","s">>) >>

\* contents of word-bank/all_words.txt, as split into a list
Dictionaries == { FiveWords, OddWords \o FiveWords }

\* contents of word-bank/target_words.txt, as split into a list
TargetWords == FiveWords

\* lines the player may type: every word of the lists as it is, and in capitals
\* between spaces; the help request; a word of no list; an empty line
RawInputs ==
    LET words == Range(FiveWords) \cup Range(OddWords) \cup {Str(<<"h">>)}
    IN  words \cup { <<32>> \o upper(w) \o <<32, 10>> : w \in words }
              \cup { Str(<<"z","o","n","a","l">>), <<>> }

\* contents miss_letters.txt may have when the script starts
InitialLogs == { [exists |-> FALSE, content |-> <<>>],
                 [exists |-> TRUE, content |-> Str(<<"z","q">>)] }

----------------------------------------------------------------------------
(* ask_for_guess *)

\* input().lower().strip()
Normalise(raw) == strip(lower(raw))

\* ask_for_guess without the length test
BranchNoLength(g, words) ==
    IF g = Str(<<"h">>) THEN "help"
    ELSE IF ~In(g, words) THEN "not_valid"
    ELSE "return"

\* ask_for_guess without the dictionary test
BranchNoMembership(g, words) ==
    IF g = Str(<<"h">>) THEN "help"
    ELSE IF Len(g) # WORD_LENGTH THEN "wrong_length"
    ELSE "return"

\* the branch one iteration of ask_for_guess takes for a normalised line
Branch(g, words) ==
    IF g = Str(<<"h">>) THEN "help"
    ELSE IF ~In(g, words) THEN "not_valid"
    ELSE IF Len(g) # WORD_LENGTH THEN "wrong_length"
    ELSE "return"

AskHelp ==
    /\ pc = "ask"
    /\ \E raw \in RawInputs :
          /\ Branch(Normalise(raw), valid_words) = "help"
          /\ input' = raw
    /\ msg' = "help"
    /\ UNCHANGED <<pc, calls, attempt, word_of_the_day, valid_words, guess, score,
                   correct, file, tracker, scored, reported>>

AskNotValid ==
    /\ pc = "ask"
    /\ \E raw \in RawInputs :
          /\ Branch(Normalise(raw), valid_words) = "not_valid"
          /\ input' = raw
    /\ msg' = "error"
    /\ UNCHANGED <<pc, calls, attempt, word_of_the_day, valid_words, guess, score,
                   correct, file, tracker, scored, reported>>

AskWrongLength ==
    /\ pc = "ask"
    /\ \E raw \in RawInputs :
          /\ Branch(Normalise(raw), valid_words) = "wrong_length"
          /\ input' = raw
    /\ msg' = "error"
    /\ UNCHANGED <<pc, calls, attempt, word_of_the_day, valid_words, guess, score,
                   correct, file, tracker, scored, reported>>

AskReturn ==
    /\ pc = "ask"
    /\ \E raw \in RawInputs :
          /\ Branch(Normalise(raw), valid_words) = "return"
          /\ input' = raw
          /\ guess' = Normalise(raw)
    /\ pc' = "body"
    /\ UNCHANGED <<calls, attempt, word_of_the_day, valid_words, score, correct,
                   file, tracker, msg, scored, reported>>

----------------------------------------------------------------------------
(* play and the __main__ block *)

\* a loop condition that lets a seventh attempt in
LoopCondInclusive(a) == a <= MAX_ATTEMPTS

\* the condition of play()'s while loop
LoopCond(a) == a < MAX_ATTEMPTS

\* lines 29-35 of play(): the log is deleted, the attempt count reset, the target
\* drawn, the dictionary read, the player greeted; then the loop condition
PlayEnter ==
    /\ calls' = calls + 1
    /\ file' = delete_miss_letters(file)
    /\ attempt' = 0
    /\ \E w \in Range(TargetWords) : word_of_the_day' = w
    /\ msg' = "welcome"
    /\ tracker' = <<>>
    /\ scored' = <<>>
    /\ reported' = {}
    /\ pc' = IF LoopCond(0) THEN "ask" ELSE IF calls = 0 THEN "play2" ELSE "exit"
    /\ UNCHANGED <<valid_words, input, guess, score, correct>>

\* line 356: main(test=False), which calls play()
MainCall ==
    /\ pc = "main"
    /\ PlayEnter

\* line 357: play() again, once main() has returned
SecondCall ==
    /\ pc = "play2"
    /\ PlayEnter

\* lines 39-53 of play(), and the loop condition that follows: whatever was
\* printed, the loop has no break and no return, so it goes on while LoopCond
Body ==
    /\ pc = "body"
    /\ LET a == attempt + 1
           s == score_guess(guess, word_of_the_day)
           t == track_miss_letters(guess, word_of_the_day, file)
           c == is_correct(s)
           m == IF c THEN "won" ELSE IF a = MAX_ATTEMPTS THEN "lost" ELSE "retry"
       IN  /\ attempt' = a
           /\ score' = s
           /\ file' = t.file
           /\ tracker' = t.tracked_miss_letters
           /\ correct' = c
           /\ msg' = m
           /\ reported' = IF m = "retry" THEN reported ELSE reported \cup {m}
           /\ scored' = Append(scored, guess)
           /\ pc' = IF LoopCond(a) THEN "ask"
                    ELSE IF calls = 1 THEN "play2" ELSE "exit"
    /\ UNCHANGED <<calls, word_of_the_day, valid_words, input, guess>>

Init ==
    /\ pc = "main"
    /\ calls = 0
    /\ attempt = 0
    /\ word_of_the_day = <<>>
    /\ valid_words \in Dictionaries
    /\ input = <<>>
    /\ guess = <<>>
    /\ score = <<>>
    /\ correct = FALSE
    /\ file \in InitialLogs
    /\ tracker = <<>>
    /\ msg = ""
    /\ scored = <<>>
    /\ reported = {}

Next ==
    \/ MainCall
    \/ AskHelp
    \/ AskNotValid
    \/ AskWrongLength
    \/ AskReturn
    \/ Body
    \/ SecondCall

Spec == Init /\ [][Next]_vars

----------------------------------------------------------------------------
(* score_guess on its own, over every pair of 5-letter words of a small alphabet *)

Letters == 97..(96 + NumLetters)

Words == [1..WORD_LENGTH -> Letters]

InitScore ==
    /\ pc = "score_in"
    /\ guess \in Words
    /\ word_of_the_day \in Words
    /\ score = <<>>
    /\ calls = 0
    /\ attempt = 0
    /\ valid_words = <<>>
    /\ input = <<>>
    /\ correct = FALSE
    /\ file = [exists |-> FALSE, content |-> <<>>]
    /\ tracker = <<>>
    /\ msg = ""
    /\ scored = <<>>
    /\ reported = {}

ScoreCall ==
    /\ pc = "score_in"
    /\ score' = score_guess(guess, word_of_the_day)
    /\ pc' = "score_out"
    /\ UNCHANGED <<calls, attempt, word_of_the_day, valid_words, input, guess,
                   correct, file, tracker, msg, scored, reported>>

NextScore == ScoreCall

SpecScore == InitScore /\ [][NextScore]_vars

----------------------------------------------------------------------------
(* is_correct on its own, over every 5-element score *)

Scores == [1..WORD_LENGTH -> {MISS, MISPLACED, EXACT}]

InitCorrect ==
    /\ pc = "correct_in"
    /\ score \in Scores
    /\ correct = FALSE
    /\ guess = <<>>
    /\ word_of_the_day = <<>>
    /\ calls = 0
    /\ attempt = 0
    /\ valid_words = <<>>
    /\ input = <<>>
    /\ file = [exists |-> FALSE, content |-> <<>>]
    /\ tracker = <<>>
    /\ msg = ""
    /\ scored = <<>>
    /\ reported = {}

CorrectCall ==
    /\ pc = "correct_in"
    /\ correct' = is_correct(score)
    /\ pc' = "correct_out"
    /\ UNCHANGED <<calls, attempt, word_of_the_day, valid_words, input, guess,
                   score, file, tracker, msg, scored, reported>>

NextCorrect == CorrectCall

SpecCorrect == InitCorrect /\ [][NextCorrect]_vars

----------------------------------------------------------------------------
(* Properties of score_guess *)

Count(s, x) == Cardinality({ i \in 1..Len(s) : s[i] = x })

\* the classification of position i stated without the loops: EXACT where the
\* letters agree; otherwise MISPLACED while the target still holds an occurrence
\* of the letter that neither an exact position nor an earlier non-exact position
\* of the guess has claimed
Reference(g, t) ==
    [i \in 1..WORD_LENGTH |->
        IF g[i] = t[i] THEN EXACT
        ELSE LET earlier == Cardinality({ j \in 1..(i - 1) : g[j] # t[j] /\ g[j] = g[i] })
                 exact   == Cardinality({ k \in 1..WORD_LENGTH : g[k] = t[k] /\ g[k] = g[i] })
             IN  IF earlier < Count(t, g[i]) - exact THEN MISPLACED ELSE MISS]

Scenarios ==
    /\ score_guess(Str(<<"h","e","l","l","o">>), Str(<<"h","e","l","l","o">>)) = <<2, 2, 2, 2, 2>>
    /\ score_guess(Str(<<"d","r","a","i","n">>), Str(<<"f","l","o","a","t">>)) = <<0, 0, 1, 0, 0>>
    /\ score_guess(Str(<<"h","e","l","l","o">>), Str(<<"s","p","a","m","s">>)) = <<0, 0, 0, 0, 0>>
    /\ score_guess(Str(<<"g","a","u","g","e">>), Str(<<"r","a","n","g","e">>)) = <<0, 2, 0, 2, 2>>
    /\ score_guess(Str(<<"m","e","l","e","e">>), Str(<<"e","r","e","c","t">>)) = <<0, 1, 0, 1, 0>>
    /\ score_guess(Str(<<"a","r","r","a","y">>), Str(<<"s","p","r","a","y">>)) = <<0, 0, 2, 2, 2>>
    /\ score_guess(Str(<<"t","r","a","i","n">>), Str(<<"t","e","n","o","r">>)) = <<2, 1, 0, 0, 1>>

\* C1: the score score_guess returns for a guess and a target is the two-pass
\* reference classification at every position, and the seven listed scenarios
\* give the listed scores.
C1_ScoreIsReference ==
    /\ pc = "score_out" => score = Reference(guess, word_of_the_day)
    /\ Scenarios

\* a scored pair in which one letter is exact at one position, misplaced at
\* another and a miss at a third
C1_Witness ==
    /\ pc = "score_out"
    /\ \E i, j, k \in 1..WORD_LENGTH :
          /\ guess[i] = guess[j] /\ guess[j] = guess[k]
          /\ score[i] = EXACT /\ score[j] = MISPLACED /\ score[k] = MISS

NonMiss(g, s, L) == Cardinality({ i \in 1..Len(s) : g[i] = L /\ s[i] # MISS })

Min(a, b) == IF a < b THEN a ELSE b

\* C4: for every letter L the positions of the guess that hold L and are scored
\* EXACT or MISPLACED number at most the occurrences of L in the target, and the
\* occurrences of L in the guess beyond that number are scored MISS: the count is
\* the smaller of the two occurrence counts.
C4_LetterCountConservation ==
    pc = "score_out" =>
        /\ Len(score) = WORD_LENGTH
        /\ \A L \in Letters :
              /\ NonMiss(guess, score, L) <= Count(word_of_the_day, L)
              /\ NonMiss(guess, score, L) = Min(Count(guess, L), Count(word_of_the_day, L))

\* a scored pair whose guess holds a letter more often than the target does, the
\* target holding it at least once
C4_Witness ==
    /\ pc = "score_out"
    /\ \E L \in Letters :
          /\ Count(word_of_the_day, L) >= 1
          /\ Count(guess, L) > Count(word_of_the_day, L)
          /\ \E i \in 1..WORD_LENGTH : guess[i] = L /\ score[i] = MISS

----------------------------------------------------------------------------
(* Properties of is_correct *)

\* C7: is_correct(score) is true exactly when every element of the score is
\* EXACT; one MISS or MISPLACED position makes it false, the all-MISPLACED score
\* included.
C7_CorrectIffAllExact ==
    pc = "correct_out" =>
        /\ correct <=> \A i \in 1..WORD_LENGTH : score[i] = EXACT
        /\ (\E i \in 1..WORD_LENGTH : score[i] \in {MISS, MISPLACED}) => ~correct

\* is_correct has been applied to the all-MISPLACED score
C7_Witness ==
    /\ pc = "correct_out"
    /\ \A i \in 1..WORD_LENGTH : score[i] = MISPLACED
    /\ ~correct

----------------------------------------------------------------------------
(* Properties of a session *)

H == Str(<<"h">>)

\* the session has stopped asking for and scoring guesses
SessionOver == pc \notin {"ask", "body"}

\* C2: once a scored guess is all-EXACT the session ends: no further guess is
\* requested or scored in that session, whatever the attempt count was.
C2_WonIsTerminal ==
    (\E i \in 1..Len(scored) : is_correct(score_guess(scored[i], word_of_the_day)))
        => SessionOver

\* C3: the loss is reported only when no guess scored in the session was
\* all-EXACT, no session reports both a win and a loss, and a correct guess on
\* the last attempt is reported as a win.
C3_LostOnlyWithoutWin ==
    /\ "lost" \in reported =>
          /\ \A i \in 1..Len(scored) : ~is_correct(score_guess(scored[i], word_of_the_day))
          /\ "won" \notin reported
    /\ (Len(scored) = MAX_ATTEMPTS /\ scored[MAX_ATTEMPTS] = word_of_the_day) => msg = "won"

\* C10: one run of the script enters play() once and draws one target; after
\* that session no further guess is requested and no second target is drawn.
C10_OneSessionPerRun ==
    calls <= 1

\* C5: the attempt count stays between 0 and 6 and starts at 0, at most 6
\* guesses are scored in a session, and no guess is requested once 6 guesses
\* have been scored.
C5_AttemptBound ==
    /\ attempt \in 0..MAX_ATTEMPTS
    /\ scored = <<>> => attempt = 0
    /\ Len(scored) <= MAX_ATTEMPTS
    /\ attempt = Len(scored)
    /\ Len(scored) = MAX_ATTEMPTS => SessionOver

\* six guesses have been scored and the session has ended
C5_Witness ==
    /\ Len(scored) = MAX_ATTEMPTS
    /\ attempt = MAX_ATTEMPTS
    /\ SessionOver

\* the inputs the claim calls rejected: the help request, a word that is not in
\* the dictionary, a word whose length is not 5
Rejected(g, words) ==
    \/ g = H
    \/ g \notin Range(words)
    \/ Len(g) # WORD_LENGTH

\* C6: a step that reads a rejected line leaves the attempt count, the target,
\* the miss-letter log and the reported miss letters as they were and stays at
\* the prompt; the attempt count grows only by 1, and only when a guess that is
\* not rejected has been accepted, and every accepted guess grows it.
C6_RejectedInputKeepsAttempt ==
    /\ [][(pc = "ask" /\ Rejected(Normalise(input'), valid_words)) =>
             /\ attempt' = attempt
             /\ word_of_the_day' = word_of_the_day
             /\ file' = file
             /\ tracker' = tracker
             /\ scored' = scored
             /\ pc' = "ask"]_vars
    /\ [][attempt' > attempt =>
             /\ attempt' = attempt + 1
             /\ pc = "body"
             /\ ~Rejected(guess, valid_words)]_vars
    /\ [][pc = "body" => attempt' = attempt + 1]_vars

\* after a scored attempt, a word that is in the dictionary but is not 5 letters
\* long has been typed and turned down
C6_Witness ==
    /\ pc = "ask"
    /\ msg = "error"
    /\ attempt >= 1
    /\ Normalise(input) \in Range(valid_words)
    /\ Len(Normalise(input)) # WORD_LENGTH

IsLower(c) == c \notin 65..90

\* C9: every guess ask_for_guess returns, and every guess that is scored, is
\* trimmed and lowercased, is in the dictionary and has 5 characters, whatever
\* the dictionary holds.
C9_ScorerPrecondition ==
    \A g \in Range(scored) \cup (IF pc = "body" THEN {guess} ELSE {}) :
        /\ Len(g) = WORD_LENGTH
        /\ \E i \in 1..Len(valid_words) : valid_words[i] = g
        /\ \A i \in 1..Len(g) : IsLower(g[i])
        /\ ~IsSpace(g[1]) /\ ~IsSpace(g[Len(g)])

\* a guess typed in capitals between spaces has been returned, the dictionary
\* holding words of other lengths
C9_Witness ==
    /\ pc = "body"
    /\ input # guess
    /\ \E i \in 1..Len(valid_words) : Len(valid_words[i]) # WORD_LENGTH

\* the uppercased letters of the guesses scored so far that the target lacks
MissSet ==
    { UpperChar(scored[i][k]) : i \in 1..Len(scored), k \in 1..WORD_LENGTH }
        \ { UpperChar(word_of_the_day[k]) : k \in 1..Len(word_of_the_day) }

\* C8: the log is absent when a session starts; after each scored attempt the
\* reported letters are exactly the distinct uppercased letters, in increasing
\* order, of the guesses scored so far that the target lacks; no letter of the
\* target is ever reported, and within a session the reported set never shrinks.
C8_MissLetterAccumulation ==
    /\ [](/\ (calls >= 1 /\ scored = <<>>) => (~file.exists /\ tracker = <<>>)
          /\ scored # <<>> =>
                /\ Range(tracker) = MissSet
                /\ \A i, j \in 1..Len(tracker) : i < j => tracker[i] < tracker[j]
          /\ \A i \in 1..Len(tracker) :
                ~In(LowerChar(tracker[i]), word_of_the_day))
    /\ [][calls' = calls => Range(tracker) \subseteq Range(tracker')]_vars

\* two different guesses have been scored, their miss letters are reported and
\* one of them holds a letter of the target
C8_Witness ==
    /\ Len(scored) >= 2
    /\ \E i, j \in 1..Len(scored) : scored[i] # scored[j]
    /\ Len(tracker) >= 3
    /\ \E i \in 1..Len(scored) : \E k \in 1..WORD_LENGTH : In(scored[i][k], word_of_the_day)

====
